---- MODULE Spec2Model ----
(***************************************************************************)
(* Model of streamlit_app.py: the booking page of an event.  Every script  *)
(* run (one per request) reads the sessions of a date with their booked    *)
(* counts (fetch_sessions), lets the visitor pick a slot and submit the    *)
(* form, validates the fields and calls create_booking_atomic, which locks *)
(* the session row (select ... for update), counts the bookings of the     *)
(* session, and inserts a booking when a seat remains.                     *)
(*                                                                         *)
(* The database is PostgreSQL at its default isolation level (read         *)
(* committed): a statement sees the rows committed before it starts and    *)
(* the rows its own transaction wrote; "for update" waits while another    *)
(* transaction holds the row, and a transaction's row locks are released   *)
(* when it commits or rolls back.  psycopg2's "with connect() as conn"     *)
(* commits the open transaction when the block is left normally (a return  *)
(* included) and rolls it back when the block is left by an exception;     *)
(* commit() without an open transaction does nothing.                      *)
(***************************************************************************)
EXTENDS Integers, Sequences, FiniteSets, TLC

\* ------------------------------------------------------------------ bounds
NumProcs == 2        \* concurrent script runs (requests)
MaxCapacity == 2     \* largest capacity of the first session row

\* ------------------------------------------------------- program constants
MinPhoneLen == 7     \* PHONE_REGEX {7,20}
MaxPhoneLen == 20

Procs == 1..NumProcs
SessionIds == {1, 2}          \* ids of the rows of public.sessions
MissingId == 9999             \* an id with no row in public.sessions
AllIds == SessionIds \cup {MissingId}
NoOne == 0                    \* no transaction holds the row lock
None == <<>>                  \* Python None / no row; a value v is held as <<v>>

VARIABLES
    sessions,          \* public.sessions: id -> capacity (lines 46-53, 76)
    bookings,          \* public.bookings: the committed rows
    uncommitted,       \* per transaction: rows inserted and not yet committed
    rowlock,           \* per session row: the transaction holding FOR UPDATE
    bookings_id_seq,   \* the serial sequence behind bookings.id
    bookings0,         \* the rows of public.bookings when the runs start
    pc,                \* per run: the statement it is at
    selected_session,  \* per run: the row of the fetch_sessions snapshot chosen
    session_id,        \* per run: argument of create_booking_atomic
    attendee,          \* per run: (full_name, phone, email) arguments
    srow,              \* per run: result of the select ... for update
    booked,            \* per run: result of the count(*) query
    new_id,            \* per run: the id returned by insert ... returning id
    txn,               \* per run: "none" | "open" | "committed" | "rolledback"
    result             \* per run: what the run told its caller

vars == <<sessions, bookings, uncommitted, rowlock, bookings_id_seq, bookings0,
          pc, selected_session, session_id, attendee, srow, booked, new_id,
          txn, result>>

dbvars == <<sessions, bookings, uncommitted, rowlock, bookings_id_seq, bookings0>>

\* ---------------------------------------------------------------- strings
\* A string is a sequence of one-character strings.
Blank == {" "}
Digits == {"0", "1", "2", "3", "4", "5", "6", "7", "8", "9"}
PhoneChars == Digits \cup {"+", "(", ")", " ", "-"}

RECURSIVE lstrip(_)
lstrip(s) == IF s # <<>> /\ Head(s) \in Blank THEN lstrip(Tail(s)) ELSE s

RECURSIVE rstrip(_)
rstrip(s) ==
    IF s # <<>> /\ s[Len(s)] \in Blank THEN rstrip(SubSeq(s, 1, Len(s) - 1)) ELSE s

strip(s) == rstrip(lstrip(s))

lower_char(c) ==
    CASE c = "A" -> "a"
      [] c = "L" -> "l"
      [] c = "X" -> "x"
      [] OTHER -> c

lower(s) == [i \in 1..Len(s) |-> lower_char(s[i])]

contains(s, c) == \E i \in 1..Len(s) : s[i] = c

PHONE_REGEX(s) ==
    /\ Len(s) >= MinPhoneLen
    /\ Len(s) <= MaxPhoneLen
    /\ \A i \in 1..Len(s) : s[i] \in PhoneChars

\* ----------------------------------------------------------------- inputs
Ana == [full_name |-> <<"A", "n", "a">>,
        phone |-> <<"6", "0", "0", "1", "2", "3", "4">>,
        email |-> <<"a", "@", "x", ".", "e">>]
Luis == [full_name |-> <<"L", "u">>,
         phone |-> <<"+", "3", "4", " ", "6", "0", "0", "1">>,
         email |-> <<"l", "@", "x", ".", "e">>]
\* The attendee of the i-th booking made before the runs start.
DigitOf == <<"1", "2", "3", "4", "5", "6", "7", "8", "9">>
Prior(i) == [full_name |-> <<"P">>,
             phone |-> <<"6", "1", "1", "1", "1", "1", DigitOf[i]>>,
             email |-> <<"p", "@", "x", ".", "e">>]

Attendees == {Ana, Luis}

\* What a visitor can type into booking_form.
FormInputs ==
    { [full_name |-> <<" ", "A", "n", "a">>, phone |-> Ana.phone,
       email |-> <<"A", "@", "X", ".", "e", " ">>, consent |-> TRUE],
      [full_name |-> Ana.full_name, phone |-> Ana.phone \o <<" ">>,
       email |-> Ana.email, consent |-> TRUE],
      [full_name |-> Luis.full_name, phone |-> Luis.phone,
       email |-> <<"L", "@", "x", ".", "e">>, consent |-> TRUE],
      [full_name |-> <<" ", " ">>, phone |-> Ana.phone,
       email |-> Ana.email, consent |-> TRUE],
      [full_name |-> Ana.full_name, phone |-> <<"6", "0", "0">>,
       email |-> Ana.email, consent |-> TRUE],
      [full_name |-> Ana.full_name, phone |-> <<"6", "0", "0", "a", "b", "c", "d">>,
       email |-> Ana.email, consent |-> TRUE],
      [full_name |-> Ana.full_name, phone |-> Ana.phone,
       email |-> <<"a", ".", "e">>, consent |-> TRUE],
      [full_name |-> Ana.full_name, phone |-> Ana.phone,
       email |-> <<"a", "@", "x">>, consent |-> TRUE],
      [full_name |-> Luis.full_name, phone |-> Luis.phone,
       email |-> Luis.email, consent |-> FALSE] }

\* ------------------------------------------------------------ the database
Row(id, sid, a) == [id |-> id, session_id |-> sid, attendee |-> a]

\* Rows a statement of transaction p sees (read committed).
Visible(p) == bookings \cup uncommitted[p]

\* (variant: the count without its where clause)
CountBookingsAnySession(rows, sid) == Cardinality(rows)

\* select count(*) from public.bookings where session_id = sid
CountBookings(rows, sid) == Cardinality({b \in rows : b.session_id = sid})

\* The rows present before the runs start: n[s] bookings of session s.
SeedRows(n) ==
    {Row(i, 1, Prior(i)) : i \in 1..n[1]}
        \cup {Row(n[1] + i, 2, Prior(n[1] + i)) : i \in 1..n[2]}

\* (variant: a sequence that hands out the same value again)
nextval_stuck == bookings_id_seq

\* nextval of the serial sequence: never handed out twice, also after a rollback.
nextval == bookings_id_seq + 1

\* (variant: row locks that outlive their transaction)
ReleaseNothing(p) == rowlock

\* The transaction of p ends: its row locks are released.
Release(p) == [s \in SessionIds |-> IF rowlock[s] = p THEN NoOne ELSE rowlock[s]]

\* The loaded sessions: the first of any capacity, the second a single seat.
Catalogues == {c \in [SessionIds -> 0..MaxCapacity] : c[2] = 1}

Init ==
    /\ sessions \in Catalogues
    /\ \E n \in [SessionIds -> 0..MaxCapacity] :
          /\ \A s \in SessionIds : n[s] <= sessions[s]
          /\ bookings = SeedRows(n)
          /\ bookings_id_seq = n[1] + n[2] + 1
    /\ bookings0 = bookings
    /\ uncommitted = [p \in Procs |-> {}]
    /\ rowlock = [s \in SessionIds |-> NoOne]
    /\ pc = [p \in Procs |-> "idle"]
    /\ selected_session = [p \in Procs |-> None]
    /\ session_id = [p \in Procs |-> None]
    /\ attendee = [p \in Procs |-> None]
    /\ srow = [p \in Procs |-> None]
    /\ booked = [p \in Procs |-> None]
    /\ new_id = [p \in Procs |-> None]
    /\ txn = [p \in Procs |-> "none"]
    /\ result = [p \in Procs |-> None]

\* --------------------------------------------------------------- messages
MsgNotFound == "Sesion no encontrada."
MsgFull == "Lo sentimos: esa sesion se acaba de llenar."
MsgConfirmed == "Reserva confirmada!"
MsgStaleFull == "Esa sesion ya esta llena. Elige otra franja."
MsgName == "Falta Nombre y Apellido."
MsgPhone == "Movil invalido. Revisa el formato."
MsgEmail == "Email invalido."
MsgConsent == "Necesitas aceptar el uso de datos para inscribirte."
MsgError == "psycopg2.Error"

\* What create_booking_atomic returns, and the exception it lets through.
Ok == <<TRUE, MsgConfirmed>>
Full == <<FALSE, MsgFull>>
NotFound == <<FALSE, MsgNotFound>>
Unavailable == <<FALSE, MsgError>>

\* ------------------------------------------------------------------ the UI
\* (variant: the join without its on clause)
SessionRowAnyBooking(s) ==
    [id |-> s, capacity |-> sessions[s],
     remaining |-> sessions[s] - Cardinality(bookings)]

\* The row of session s in the result of fetch_sessions: capacity, count of the
\* committed bookings joined to it, and remaining = capacity - booked.
SessionRow(s) ==
    LET cnt == CountBookings(bookings, s)
    IN [id |-> s, capacity |-> sessions[s], remaining |-> sessions[s] - cnt]

\* fetch_sessions: one statement, run in a transaction of its own; the visitor
\* picks the row of session s.
fetch_sessions(p, s) ==
    /\ pc[p] = "idle"
    /\ selected_session' = [selected_session EXCEPT ![p] = <<SessionRow(s)>>]
    /\ pc' = [pc EXCEPT ![p] = "form"]
    /\ UNCHANGED <<dbvars, session_id, attendee, srow, booked, new_id, txn, result>>

\* The first validation of the submit handler that fails, or None.
Validation(sel, f) ==
    IF sel.remaining <= 0 THEN <<MsgStaleFull>>
    ELSE IF strip(f.full_name) = <<>> THEN <<MsgName>>
    ELSE IF ~PHONE_REGEX(strip(f.phone)) THEN <<MsgPhone>>
    ELSE IF ~contains(f.email, "@") \/ ~contains(f.email, ".") THEN <<MsgEmail>>
    ELSE IF ~f.consent THEN <<MsgConsent>>
    ELSE None

\* The run of p is over: its locals are gone; what stays is the session it
\* called create_booking_atomic on (if it did), how its transaction ended and
\* what it was told.
Finish(p, res) ==
    /\ result' = [result EXCEPT ![p] = res]
    /\ pc' = [pc EXCEPT ![p] = "done"]
    /\ selected_session' = [selected_session EXCEPT ![p] = None]
    /\ attendee' = [attendee EXCEPT ![p] = None]
    /\ srow' = [srow EXCEPT ![p] = None]
    /\ booked' = [booked EXCEPT ![p] = None]
    /\ new_id' = [new_id EXCEPT ![p] = None]
    /\ UNCHANGED <<sessions, bookings0, session_id>>

\* "if submit:": st.error and st.stop on the first failed validation, otherwise
\* the call of create_booking_atomic with the normalised fields.
submit(p, f) ==
    /\ pc[p] = "form"
    /\ LET sel == selected_session[p][1]
           err == Validation(sel, f)
       IN IF err # None
          THEN /\ Finish(p, <<FALSE, err[1]>>)
               /\ UNCHANGED <<bookings, uncommitted, rowlock, bookings_id_seq, txn>>
          ELSE /\ session_id' = [session_id EXCEPT ![p] = <<sel.id>>]
               /\ attendee' = [attendee EXCEPT ![p] =
                      <<[full_name |-> strip(f.full_name), phone |-> strip(f.phone),
                         email |-> lower(strip(f.email))]>>]
               /\ pc' = [pc EXCEPT ![p] = "select"]
               \* the snapshot is not read again by anything modelled here
               /\ selected_session' = [selected_session EXCEPT ![p] = None]
               /\ UNCHANGED <<dbvars, srow, booked, new_id, txn, result>>

\* A caller of create_booking_atomic other than the form: any id, validated fields.
attemptBooking(p, sid, a) ==
    /\ pc[p] = "idle"
    /\ session_id' = [session_id EXCEPT ![p] = <<sid>>]
    /\ attendee' = [attendee EXCEPT ![p] = <<a>>]
    /\ pc' = [pc EXCEPT ![p] = "select"]
    /\ UNCHANGED <<dbvars, selected_session, srow, booked, new_id, txn, result>>

\* --------------------------------------------------- create_booking_atomic
\* (variant: a plain select, without "for update")
LockFreeWithoutForUpdate(p, sid) == TRUE

\* (variant: one lock for the whole table)
LockFreeTableLock(p, sid) == \A s \in SessionIds : rowlock[s] \in {NoOne, p}

\* The row lock of session sid can be taken by p.
LockFree(p, sid) == rowlock[sid] \in {NoOne, p}

\* (variant: a commit that loses the transaction's rows)
ConnCommitLosesRows(p) ==
    /\ bookings' = bookings
    /\ uncommitted' = [uncommitted EXCEPT ![p] = {}]
    /\ rowlock' = Release(p)
    /\ txn' = [txn EXCEPT ![p] = IF txn[p] = "open" THEN "committed" ELSE txn[p]]
    /\ UNCHANGED bookings_id_seq

\* What leaving "with connect() as conn" normally does, and conn.commit():
\* commit the open transaction, if there is one.
ConnCommit(p) ==
    /\ bookings' = IF txn[p] = "open" THEN bookings \cup uncommitted[p] ELSE bookings
    /\ uncommitted' = [uncommitted EXCEPT ![p] = {}]
    /\ rowlock' = Release(p)
    /\ txn' = [txn EXCEPT ![p] = IF txn[p] = "open" THEN "committed" ELSE txn[p]]
    /\ UNCHANGED bookings_id_seq

\* (variant: a rollback that keeps the transaction's rows)
ConnRollbackKeepsRows(p) ==
    /\ bookings' = bookings \cup uncommitted[p]
    /\ uncommitted' = [uncommitted EXCEPT ![p] = {}]
    /\ rowlock' = Release(p)
    /\ txn' = [txn EXCEPT ![p] = IF txn[p] = "open" THEN "rolledback" ELSE txn[p]]
    /\ UNCHANGED bookings_id_seq

\* conn.rollback(), and what leaving the with block by an exception does.
ConnRollback(p) ==
    /\ bookings' = bookings
    /\ uncommitted' = [uncommitted EXCEPT ![p] = {}]
    /\ rowlock' = Release(p)
    /\ txn' = [txn EXCEPT ![p] = IF txn[p] = "open" THEN "rolledback" ELSE txn[p]]
    /\ UNCHANGED bookings_id_seq

\* select id, capacity from public.sessions where id=%s for update
\* The first statement opens the transaction and waits until the row lock is
\* free; srow = cur.fetchone().
SelectForUpdate(p) ==
    /\ pc[p] = "select"
    /\ session_id[p][1] \in SessionIds
    /\ LET sid == session_id[p][1]
       IN /\ LockFree(p, sid)
          /\ rowlock' = [rowlock EXCEPT ![sid] = p]
          /\ srow' = [srow EXCEPT ![p] = <<[id |-> sid, capacity |-> sessions[sid]]>>]
    /\ pc' = [pc EXCEPT ![p] = "count"]
    /\ txn' = [txn EXCEPT ![p] = "open"]
    /\ UNCHANGED <<sessions, bookings, uncommitted, bookings_id_seq, bookings0,
                   selected_session, session_id, attendee, booked, new_id, result>>

\* The same statement when no row has the id: nothing is locked, srow is None
\* and "if not srow: return False, ..." leaves the with block, which commits
\* the transaction the statement opened.
SelectNotFound(p) ==
    /\ pc[p] = "select"
    /\ session_id[p][1] \notin SessionIds
    /\ bookings' = bookings
    /\ uncommitted' = [uncommitted EXCEPT ![p] = {}]
    /\ rowlock' = Release(p)
    /\ txn' = [txn EXCEPT ![p] = "committed"]
    /\ UNCHANGED bookings_id_seq
    /\ Finish(p, NotFound)

\* select count(*)::int as booked from public.bookings where session_id=%s
CountBooked(p) ==
    /\ pc[p] = "count"
    /\ booked' = [booked EXCEPT ![p] = <<CountBookings(Visible(p), session_id[p][1])>>]
    /\ pc' = [pc EXCEPT ![p] = "check"]
    /\ UNCHANGED <<dbvars, selected_session, session_id, attendee, srow, new_id,
                   txn, result>>

\* (variant: one seat too few)
remaining_off_by_one(p) == srow[p][1].capacity - booked[p][1] - 1

\* remaining = capacity - booked
remaining(p) == srow[p][1].capacity - booked[p][1]

\* (variant: the return without conn.rollback(), so that the with block commits)
RollbackFullWithoutRollback(p) ==
    /\ pc[p] = "check"
    /\ remaining(p) <= 0
    /\ ConnCommit(p)
    /\ Finish(p, Full)

\* if remaining <= 0: conn.rollback(); return False, "Lo sentimos: ..."
\* (the commit of the with block then finds no open transaction)
RollbackFull(p) ==
    /\ pc[p] = "check"
    /\ remaining(p) <= 0
    /\ ConnRollback(p)
    /\ Finish(p, Full)

\* insert into public.bookings (...) values (...) returning id; _ = id
InsertBooking(p) ==
    /\ pc[p] = "check"
    /\ remaining(p) > 0
    /\ uncommitted' = [uncommitted EXCEPT ![p] =
           @ \cup {Row(bookings_id_seq, session_id[p][1], attendee[p][1])}]
    /\ bookings_id_seq' = nextval
    /\ new_id' = [new_id EXCEPT ![p] = <<bookings_id_seq>>]
    /\ pc' = [pc EXCEPT ![p] = "commit"]
    /\ UNCHANGED <<sessions, bookings, rowlock, bookings0, selected_session,
                   session_id, attendee, srow, booked, txn, result>>

\* conn.commit(); return True, "Reserva confirmada!"
Commit(p) ==
    /\ pc[p] = "commit"
    /\ ConnCommit(p)
    /\ Finish(p, Ok)

\* connect() or a statement raises before the commit takes effect (connection
\* lost, server error): the with block rolls back and the exception propagates
\* to the caller.
PersistenceFailure(p) ==
    /\ pc[p] \in {"select", "count", "check", "commit"}
    /\ ConnRollback(p)
    /\ Finish(p, Unavailable)

Step(p) ==
    \/ SelectForUpdate(p)
    \/ SelectNotFound(p)
    \/ CountBooked(p)
    \/ RollbackFull(p)
    \/ InsertBooking(p)
    \/ Commit(p)

Next ==
    \/ \E p \in Procs, s \in SessionIds : fetch_sessions(p, s)
    \/ \E p \in Procs, f \in FormInputs : submit(p, f)
    \/ \E p \in Procs, sid \in AllIds, a \in Attendees : attemptBooking(p, sid, a)
    \/ \E p \in Procs : Step(p)
    \/ \E p \in Procs : PersistenceFailure(p)

Spec == Init /\ [][Next]_vars

\* The persistence layer stays available and every run keeps being scheduled.
NextAvailable ==
    \/ \E p \in Procs, s \in SessionIds : fetch_sessions(p, s)
    \/ \E p \in Procs, f \in FormInputs : submit(p, f)
    \/ \E p \in Procs, sid \in AllIds, a \in Attendees : attemptBooking(p, sid, a)
    \/ \E p \in Procs : Step(p)

FairSpec ==
    Init /\ [][NextAvailable]_vars /\ \A p \in Procs : WF_vars(Step(p))

\* ============================================================== properties
InCall(p) == pc[p] \in {"select", "count", "check", "commit"}
Done(p) == pc[p] = "done"
\* The finished calls of create_booking_atomic on session s, and their outcomes.
Calls(s) == {p \in Procs : session_id[p] = <<s>>}
Returned(p, res) == Done(p) /\ session_id[p] # None /\ result[p] = res
\* The committed Booking rows of session s, now and when the runs started.
Committed(s) == {b \in bookings : b.session_id = s}
Initial(s) == {b \in bookings0 : b.session_id = s}
Min(a, b) == IF a <= b THEN a ELSE b
\* The step taken returns from the call of p.
Returns(p) == InCall(p) /\ pc'[p] = "done"

\* C1: in every reachable state every session has at most capacity committed
\* bookings, whatever the interleaving of the calls.
C1_CapacityInvariant ==
    \A s \in SessionIds : Cardinality(Committed(s)) <= sessions[s]

\* C1 witness: a session filled up by a run while another run, which waited
\* for its row lock, has counted and finds no seat left.
C1_Witness ==
    \E s \in SessionIds, p \in Procs :
        /\ Cardinality(Committed(s)) = sessions[s]
        /\ Cardinality(Initial(s)) < sessions[s]
        /\ session_id[p] = <<s>>
        /\ pc[p] = "check"
        /\ remaining(p) <= 0

\* C2: once the N calls on a session with capacity C and B initial bookings
\* have all returned without a persistence failure, exactly min(N, C-B) of them
\* succeeded and every other one got SessionFull.
C2_ExactOutcomeCount ==
    \A s \in SessionIds :
        LET N == Cardinality(Calls(s))
            B == Cardinality(Initial(s))
            C == sessions[s]
        IN (/\ N > 0
            /\ \A p \in Calls(s) : Done(p) /\ result[p] # Unavailable)
           => /\ Cardinality({p \in Calls(s) : result[p] = Ok}) = Min(N, C - B)
              /\ \A p \in Calls(s) : result[p] \in {Ok, Full}

\* C2 witness: more calls than free seats on one session, all returned: one
\* succeeded and one got SessionFull.
C2_Witness ==
    \E s \in SessionIds :
        /\ Cardinality(Calls(s)) > sessions[s] - Cardinality(Initial(s))
        /\ sessions[s] > Cardinality(Initial(s))
        /\ \A p \in Calls(s) : Done(p) /\ result[p] # Unavailable
        /\ \E p \in Calls(s) : result[p] = Ok
        /\ \E p \in Calls(s) : result[p] = Full

\* C3: at all times the committed rows of a session are its initial rows plus
\* one row per successful call; calls that failed (SessionFull, SessionNotFound,
\* persistence failure) added none, and rows of an open transaction are in
\* nobody else's view.
C3_AtomicSideEffects ==
    /\ \A s \in SessionIds :
          /\ Initial(s) \subseteq Committed(s)
          /\ Cardinality(Committed(s)) =
                Cardinality(Initial(s)) + Cardinality({p \in Calls(s) : Returned(p, Ok)})
    /\ \A b \in bookings : b.session_id \in SessionIds
    /\ \A p \in Procs :
          /\ uncommitted[p] \cap bookings = {}
          /\ Done(p) => uncommitted[p] = {}
          /\ \A q \in Procs \ {p} : Visible(q) \cap uncommitted[p] = {}

\* C3 witness: on one session a call succeeded and a call failed after its
\* insert (its id is used up, its row is nowhere).
C3_Witness ==
    \E p, q \in Procs :
        /\ session_id[p] = session_id[q]
        /\ Returned(p, Ok)
        /\ Returned(q, Unavailable)
        /\ txn[q] = "rolledback"
        /\ bookings_id_seq = Cardinality(bookings) + 2

\* C4: a call returns SessionNotFound iff its id has no session; otherwise it
\* returns SessionFull iff the committed bookings of the session, at the moment
\* the call holds the row lock, are >= capacity; otherwise it succeeds.
Expected(p) ==
    LET sid == session_id[p][1]
    IN IF sid \notin SessionIds THEN NotFound
       ELSE IF Cardinality(Committed(sid)) >= sessions[sid] THEN Full
       ELSE Ok

C4_ResultDecidedUnderLock ==
    [][\A p \in Procs :
          (Returns(p) /\ result'[p] # Unavailable)
             => /\ result'[p] = Expected(p)
                /\ session_id[p][1] \in SessionIds => rowlock[session_id[p][1]] = p]_vars

\* C4 witness: one call got SessionFull, another SessionNotFound.
C4_Witness ==
    \E p, q \in Procs :
        /\ Returned(p, Full)
        /\ session_id[q] = <<MissingId>>
        /\ Returned(q, NotFound)

\* C5 as stated: the confirmation of a successful call contains the id of the
\* row the call inserted, so that two successful calls return different
\* confirmations.
IdText(id) == DigitOf[id]
ContainsId(res, id) == \E i \in 2..Len(res) : res[i] = IdText(id)

C5_ConfirmationHasId ==
    /\ \A p \in Procs :
          (Done(p) /\ result[p][1]) =>
             \E b \in Committed(session_id[p][1]) \ bookings0 :
                 ContainsId(result[p], b.id)
    /\ \A p, q \in Procs :
          (p # q /\ Done(p) /\ Done(q) /\ result[p][1] /\ result[q][1])
             => result[p] # result[q]

\* C5 amended: a successful call returns (True, the fixed confirmation message)
\* and drops the id the insert returned; the ids of the rows inserted by
\* different calls are distinct.
C5_DistinctIdsNotReturned ==
    /\ \A p \in Procs : (Done(p) /\ result[p][1]) => result[p] = Ok /\ new_id[p] = None
    /\ \A p \in Procs :
          pc[p] = "commit" =>
             /\ uncommitted[p] = {Row(new_id[p][1], session_id[p][1], attendee[p][1])}
             /\ \A b \in bookings : b.id # new_id[p][1]
             /\ \A q \in Procs \ {p} : new_id[q] # new_id[p]
    /\ \A b1, b2 \in bookings : b1.id = b2.id => b1 = b2

\* C5 witness: two successful calls, with two rows.
C5_Witness ==
    \E p, q \in Procs :
        /\ p # q
        /\ Returned(p, Ok)
        /\ Returned(q, Ok)
        /\ Cardinality(bookings \ bookings0) = 2

\* C6 as stated: on the SessionNotFound and on the SessionFull path the
\* transaction is rolled back, never committed, before the call returns.
C6_AbortRollsBack ==
    \A p \in Procs :
        (Returned(p, NotFound) \/ Returned(p, Full)) => txn[p] = "rolledback"

\* C6 amended: the SessionFull path rolls its transaction back before it
\* returns; the SessionNotFound path does not: it returns from inside the with
\* block, which commits the transaction, a transaction without writes.  No
\* abort path changes the committed rows.
C6_AbortPaths ==
    /\ [](\A p \in Procs :
            /\ Returned(p, Full) => txn[p] = "rolledback"
            /\ Returned(p, NotFound) => txn[p] = "committed")
    /\ [][\A p \in Procs :
            (Returns(p) /\ result'[p] \in {NotFound, Full})
               => /\ bookings' = bookings
                  /\ uncommitted[p] = {}
                  /\ \A s \in SessionIds : rowlock'[s] # p]_vars

\* C6 witness: a call returned SessionFull, another SessionNotFound.
C6_Witness ==
    \E p, q \in Procs :
        /\ Returned(p, Full) /\ txn[p] = "rolledback"
        /\ Returned(q, NotFound) /\ txn[q] = "committed"

\* C7: a call is blocked only at the select ... for update, and only while
\* another transaction holds the row lock of the same session; a lock held on
\* a different session never stops it from locking, counting, inserting and
\* committing.
WaitsOn(p) ==
    IF pc[p] = "select" /\ session_id[p][1] \in SessionIds
    THEN {rowlock[session_id[p][1]]} \ {NoOne, p}
    ELSE {}

C7_NoGlobalLock ==
    \A p \in Procs : InCall(p) => (ENABLED Step(p) <=> WaitsOn(p) = {})

\* C7 witness: the row locks of two sessions held at once by two calls, one of
\* them after its insert.
C7_Witness ==
    \E p, q \in Procs :
        /\ p # q
        /\ rowlock[1] = p
        /\ rowlock[2] = q
        /\ pc[p] = "commit"
        /\ pc[q] \in {"count", "check", "commit"}

\* C8 as stated: no attendee holds more than one committed booking.
C8_OneBookingPerAttendee ==
    \A b1, b2 \in bookings : b1.attendee = b2.attendee => b1 = b2

\* C8 amended: every successful call reserves exactly one slot: it adds one
\* Booking row, with the session and the attendee of the call, and nothing else
\* adds a row; the same attendee may hold several bookings.
C8_OneSlotPerSuccessfulCall ==
    [][/\ \A p \in Procs :
             (Returns(p) /\ result'[p] = Ok) =>
                \E b \in bookings' \ bookings :
                    /\ bookings' = bookings \cup {b}
                    /\ b.session_id = session_id[p][1]
                    /\ b.attendee = attendee[p][1]
       /\ bookings' # bookings => \E p \in Procs : Returns(p) /\ result'[p] = Ok]_vars

\* C8 witness: one attendee with two committed bookings of the same session.
C8_Witness ==
    \E b1, b2 \in bookings :
        /\ b1 # b2
        /\ b1.attendee = b2.attendee
        /\ b1.session_id = b2.session_id

C10_StaleSnapshotSound ==
    /\ [](\A p \in Procs :
            pc[p] = "form" =>
               LET sel == selected_session[p][1]
               IN /\ sel.capacity = sessions[sel.id]
                  /\ sel.remaining >= sessions[sel.id] - Cardinality(Committed(sel.id))
                  /\ sel.remaining <= 0 => Cardinality(Committed(sel.id)) >= sessions[sel.id])
    /\ [](\A s \in SessionIds : ~(Cardinality(Committed(s)) > sessions[s]))
    /\ [][/\ bookings \subseteq bookings'
          /\ sessions' = sessions
          /\ \A p \in Procs :
                (pc[p] = "form" /\ pc'[p] # "form"
                    /\ selected_session[p][1].remaining <= 0)
                   => /\ pc'[p] = "done"
                      /\ result'[p] = <<FALSE, MsgStaleFull>>
                      /\ session_id'[p] = None]_vars

\* C10 witness: no session was full at the start, a call filled one, and a
\* later submission was rejected by the pre-check.
C10_Witness ==
    \E p, q \in Procs :
        /\ \A s \in SessionIds : Cardinality(Initial(s)) < sessions[s]
        /\ Returned(q, Ok)
        /\ Done(p)
        /\ result[p] = <<FALSE, MsgStaleFull>>

====
